---- MODULE Spec2Model ----
(***************************************************************************)
(* Model of the GitHub action "github-comment": processWithRetry and      *)
(* generateSource of the source_key-aware variant (src/unnamed/part_000). *)
(*                                                                         *)
(* Two pipeline invocations run processWithRetry concurrently against one  *)
(* PostgreSQL table pr_comments and the comment threads of the pull        *)
(* requests.  Every await of the source is one step of the invocation;     *)
(* the catch/finally blocks that run when an awaited call rejects are part *)
(* of the step that rejected.  The store runs each transaction at READ     *)
(* COMMITTED (the code sets no isolation level and takes no lock): a       *)
(* statement sees the committed rows and the rows of its own transaction.  *)
(***************************************************************************)
EXTENDS Integers, Sequences, FiniteSets, TLC

\* ------------------------------------------------------------------ bounds

\* run_id ranges over 1..MaxRunId, run_attempt over 1..MaxRunAttempt,
\* created_at (the store's clock reading) over 1..MaxTime.
MaxRunId == 2
MaxRunAttempt == 2
MaxTime == 2
\* Rejections the store, the network and the comment API may inject while
\* invocations run concurrently.
MaxFaults == 1

\* The matrix inputs of generateSource: objects of at most MaxEntries entries
\* whose values are the numbers 0..MaxValue.
MaxEntries == 2
MaxValue == 10

\* ------------------------------------------------------- program constants

MAX_RETRIES == 3
RETRY_DELAY == 1000
RETRY_ERROR_CODES == {"55P03", "40P01", "57014"}

\* ------------------------------------------------------------------ inputs

Procs == {"A", "B"}
PRs == {1, 2}
Revisions == {"R1", "R2"}
Sources == {"ci/test", "ci/lint"}
RunIds == 1..MaxRunId
RunAttempts == 1..MaxRunAttempt
Times == 1..MaxTime
\* The pull request, commit and source an invocation is started for.  The
\* code only compares these values for equality, so invocation A is always
\* started for the first of each; B is started for the same three or for
\* three that differ from A's in the source, in the commit or in the pull
\* request.
Keys(p) ==
  IF p = "A"
    THEN {<<1, "R1", "ci/test">>}
    ELSE {<<1, "R1", "ci/test">>, <<1, "R1", "ci/lint">>,
          <<1, "R2", "ci/test">>, <<2, "R1", "ci/test">>}

\* An Error object as the catch blocks read it: code "" is an absent
\* error.code, status 0 an absent error.status.
NoError == [kind |-> "none", code |-> "", status |-> 0]
StoreError(c) == [kind |-> "store", code |-> c, status |-> 0]
\* What the store may answer to a statement: the three retryable codes, a
\* coded error that is not retryable (unique_violation) and an uncoded one.
StoreFaults == {StoreError(c) : c \in RETRY_ERROR_CODES \cup {"23505", ""}}
\* Octokit rejects with a RequestError carrying the HTTP status.
GitHubError == [kind |-> "github", code |-> "", status |-> 500]
\* A request to the comment API that got no response: no status, a socket code.
GitHubNetError == [kind |-> "github", code |-> "ETIMEDOUT", status |-> 0]
GitHubFaults == {GitHubError, GitHubNetError}
\* client.connect() failing to reach the server.
ConnectError == [kind |-> "connect", code |-> "ECONNREFUSED", status |-> 0]
\* client.connect() on a Client that end() has closed.
ReuseError == [kind |-> "driver", code |-> "", status |-> 0]

NoParams ==
  [prNumber |-> 0, commitSha |-> "", source |-> "", runId |-> 0, runAttempt |-> 0]

VARIABLES
  pc,            \* per invocation: the await it is about to issue
  params,        \* per invocation: prNumber, commitSha, source, runId, runAttempt
  attempt,       \* per invocation: the loop counter of processWithRetry
  client,        \* per invocation: state of the one pg Client: new, open, ended
  tx,            \* per invocation: rows inserted by its open transaction
  comments,      \* per invocation: rows returned by the resolve query
  botComment,    \* per invocation: id of the comment found by listComments, 0 if none
  error,         \* per invocation: the error its last catch block caught
  pr_comments,   \* the committed rows of table pr_comments
  issueComments, \* per pull request: the comments of its thread, oldest first
  seen,          \* history, per invocation: the rows its resolve query read
  begins,        \* history, per invocation: BEGIN statements issued
  sleeps,        \* history, per invocation: the sleep() delays, in order
  extLog,        \* history, per invocation: its createComment/updateComment calls
  failedAt,      \* history, per invocation: attempt in which `error` was caught
  commitOrder,   \* history: the invocations in the order their COMMIT succeeded
  lastWrite,     \* history: the comment written by the latest create/update call
  faults,        \* environment: rejections it may still inject
  ends,          \* history, per invocation: client.end() calls made
  context,       \* generateSource: the workflow and job names of its context
  matrix,        \* generateSource: the `matrix` input it is given
  source,        \* generateSource: the string it returned
  warned,        \* generateSource: whether it called core.warning
  returned       \* generateSource: whether it has returned

vars ==
  <<pc, params, attempt, client, tx, comments, botComment, error, pr_comments,
    issueComments, seen, begins, sleeps, extLog, failedAt, commitOrder,
    lastWrite, faults, ends, context, matrix, source, warned, returned>>

srcVars == <<context, matrix, source, warned, returned>>

Message(p) == p

\* ------------------------------------------------------ the error handling

\* Mutants of WillRetry: every coded error is retried; every error is retried.
WillRetryCoded(e, n) ==
  /\ e.status = 0
  /\ e.code # ""
  /\ n # MAX_RETRIES

WillRetryAll(e, n) == n # MAX_RETRIES

\* Mutant of WillRetry: the last attempt is retried like the others.
WillRetryAlways(e, n) ==
  /\ e.status = 0
  /\ e.code \in RETRY_ERROR_CODES

\* The catch block of the retry loop, lines 153-191: an error carrying a
\* status is rethrown; an error whose code is in RETRY_ERROR_CODES is slept
\* on and retried unless this was the last attempt; anything else is rethrown.
WillRetry(e, n) ==
  /\ e.status = 0
  /\ e.code \in RETRY_ERROR_CODES
  /\ n # MAX_RETRIES

\* Mutant of Backoff: the same delay after every attempt.
BackoffConstant(n) == RETRY_DELAY

\* The delay slept after attempt n, line 170.
Backoff(n) == RETRY_DELAY * n

\* An awaited call of invocation p rejects with e.  Inside the inner try
\* (inTry) the inner catch issues ROLLBACK and the finally block ends the
\* client (lines 146-151) before the outer catch classifies the error.
Raise(p, e, inTry) ==
  /\ error' = [error EXCEPT ![p] = e]
  /\ failedAt' = [failedAt EXCEPT ![p] = attempt[p]]
  /\ tx' = IF inTry THEN [tx EXCEPT ![p] = {}] ELSE tx
  /\ client' = IF inTry THEN [client EXCEPT ![p] = "ended"] ELSE client
  /\ ends' = IF inTry THEN [ends EXCEPT ![p] = @ + 1] ELSE ends
  /\ IF WillRetry(e, attempt[p])
       THEN /\ pc' = [pc EXCEPT ![p] = "sleep"]
            /\ sleeps' = [sleeps EXCEPT ![p] = Append(@, Backoff(attempt[p]))]
       ELSE /\ pc' = [pc EXCEPT ![p] = "failed"]
            /\ sleeps' = sleeps

\* The environment makes an awaited call of p reject with e.
Fault(p, e, inTry) ==
  /\ faults > 0
  /\ faults' = faults - 1
  /\ Raise(p, e, inTry)

\* ------------------------------------------------------- the resolve query

\* Mutant of Visible: the rows of every commit of the pull request.
VisibleAnyCommit(p) ==
  { r \in pr_comments \cup tx[p] : r.pr_number = params[p].prNumber }

\* Mutant of Precedes: the latest row by created_at comes first.
PrecedesByCreatedAt(a, b) == a.created_at > b.created_at

\* ORDER BY source, run_id DESC, run_attempt DESC: within one source, row a
\* sorts strictly before row b.
Precedes(a, b) ==
  \/ a.run_id > b.run_id
  \/ a.run_id = b.run_id /\ a.run_attempt > b.run_attempt

\* SELECT DISTINCT ON (source): of every source the first row in that order;
\* among rows that tie on (run_id, run_attempt) the store keeps any one.
LatestRuns(rows) ==
  { S \in SUBSET rows :
      /\ \A r \in S : ~ \E r2 \in rows : r2.source = r.source /\ Precedes(r2, r)
      /\ \A r \in rows : Cardinality({x \in S : x.source = r.source}) = 1 }

\* ORDER BY created_at ASC: rows with equal created_at come in any order.
OrderByCreatedAt(S) ==
  { q \in [1..Cardinality(S) -> S] :
      /\ \A i, j \in 1..Cardinality(S) : i # j => q[i] # q[j]
      /\ \A i, j \in 1..Cardinality(S) : i < j => q[i].created_at <= q[j].created_at }

\* WHERE pr_number = $1 AND commit_sha = $2, over the rows a statement of
\* invocation p sees.
Visible(p) ==
  { r \in pr_comments \cup tx[p] :
      r.pr_number = params[p].prNumber /\ r.commit_sha = params[p].commitSha }

ResolvedViews(rows) == UNION { OrderByCreatedAt(S) : S \in LatestRuns(rows) }

\* ------------------------------------------------------------ the renderer

\* toISOString().replace(...): created_at (in half seconds) cut to the second.
Timestamp(t) == t \div 2

Section(n) ==
  [timestamp |-> Timestamp(n.created_at), source |-> n.source,
   run_id |-> n.run_id, run_attempt |-> n.run_attempt, message |-> n.message]

\* Mutant of Render: the sections in the reverse order of the rows.
RenderReversed(commitSha, rows) ==
  [marker |-> TRUE, commitSha |-> commitSha,
   sections |-> [i \in 1..Len(rows) |-> Section(rows[Len(rows) + 1 - i])]]

\* combinedMessage, lines 83-103: the header naming the commit and one
\* section per row.  marker: the text contains
\* 'Automated Workflow Results for commit'.
Render(commitSha, rows) ==
  [marker |-> TRUE, commitSha |-> commitSha,
   sections |-> [i \in 1..Len(rows) |-> Section(rows[i])]]

\* ------------------------------------------------------- the external sync

\* A comment a person wrote that quotes the header of an automated comment.
HumanQuote ==
  [bot |-> FALSE, body |-> [marker |-> TRUE, commitSha |-> "R1", sections |-> <<>>]]

\* Mutant of IsBotComment: the author type is compared with 'bot', which no
\* comment carries.
IsLowercaseBot(c) == FALSE

\* prComments.data.find(...), lines 113-116: the first comment of the page
\* whose author is a Bot and whose body includes the marker; 0 when none.
IsBotComment(c) == c.bot /\ c.body.marker

\* Mutant of FindBotComment: the search never matches.
FindNothing(thread) == 0

FindBotComment(thread) ==
  IF \E i \in 1..Len(thread) : IsBotComment(thread[i])
    THEN CHOOSE i \in 1..Len(thread) :
           /\ IsBotComment(thread[i])
           /\ \A j \in 1..(i - 1) : ~ IsBotComment(thread[j])
    ELSE 0

NoWrite == [pr |-> 0, id |-> 0, body |-> Render("", <<>>)]

Running(q) == pc[q] \notin {"idle", "done", "failed"}

\* ------------------------------------------------------- generateSource
\* Strings are sequences of UTF-16 code units.

Slash == <<47>>
LeftParen == <<40>>
RightParen == <<41>>
EqualsSign == <<61>>
Comma == <<44>>

\* context.workflow and context.job: "ci" and "t", "ci" and "lint".
Contexts ==
  {[workflow |-> <<99, 105>>, job |-> <<116>>],
   [workflow |-> <<99, 105>>, job |-> <<108, 105, 110, 116>>]}

\* The keys of a matrix: "a", "a1" and "b".
MatrixKeys == {<<97>>, <<97, 49>>, <<98>>}
MatrixValues == 0..MaxValue

KeyOrders(n) ==
  {k \in [1..n -> MatrixKeys] : \A i, j \in 1..n : i # j => k[i] # k[j]}

\* What JSON.parse and Object.entries (lines 24-25) make of a matrix input
\* that is the text of an object of n entries: its entries in the order of
\* the text.
MatrixObjects(n) ==
  {[kind |-> "object",
    entries |-> [i \in 1..n |-> [key |-> k[i], value |-> v[i]]]] :
     k \in KeyOrders(n), v \in [1..n -> MatrixValues]}

\* The input is not given (the empty string), or is not JSON.
NoMatrix == [kind |-> "absent", entries |-> <<>>]
BadMatrix == [kind |-> "malformed", entries |-> <<>>]

MatrixInputs(n) == MatrixObjects(n) \cup {NoMatrix, BadMatrix}

\* `${value}` of a number: its decimal digits.
RECURSIVE NumberToString(_)
NumberToString(n) ==
  IF n < 10 THEN <<48 + n>> ELSE NumberToString(n \div 10) \o <<48 + (n % 10)>>

\* `${key}=${value}`, line 26.
Entry(e) == e.key \o EqualsSign \o NumberToString(e.value)

\* The default comparison of Array.prototype.sort: by code units, a proper
\* prefix first.
StrLess(x, y) ==
  \E i \in 1..Len(y) :
    /\ \A j \in 1..(i - 1) : j <= Len(x) /\ x[j] = y[j]
    /\ i > Len(x) \/ x[i] < y[i]

\* .sort(), line 27.
RECURSIVE SortStrings(_)
SortStrings(q) ==
  IF q = <<>> THEN <<>>
  ELSE LET rest == SortStrings(Tail(q))
           k == Cardinality({i \in 1..Len(rest) : StrLess(rest[i], Head(q))})
       IN SubSeq(rest, 1, k) \o <<Head(q)>> \o SubSeq(rest, k + 1, Len(rest))

\* .join(','), line 28.
RECURSIVE Join(_)
Join(q) ==
  IF q = <<>> THEN <<>>
  ELSE IF Len(q) = 1 THEN q[1]
  ELSE q[1] \o Comma \o Join(Tail(q))

\* Mutant of MatrixParams: the entries are joined in the order of the input.
MatrixParamsUnsorted(m) ==
  IF m.kind = "object"
    THEN Join([i \in 1..Len(m.entries) |-> Entry(m.entries[i])])
    ELSE <<>>

\* matrixParams, lines 21-32: empty when the input is empty or fails to parse.
MatrixParams(m) ==
  IF m.kind = "object"
    THEN Join(SortStrings([i \in 1..Len(m.entries) |-> Entry(m.entries[i])]))
    ELSE <<>>

\* The return value, lines 34-36.
SourceOf(ctx, matrixParams) ==
  IF matrixParams # <<>>
    THEN ctx.workflow \o Slash \o ctx.job \o LeftParen \o matrixParams \o RightParen
    ELSE ctx.workflow \o Slash \o ctx.job

generateSource(ctx, m) == SourceOf(ctx, MatrixParams(m))

\* One call of generateSource, line 49.
CallGenerateSource ==
  /\ ~ returned
  /\ source' = generateSource(context, matrix)
  /\ warned' = (matrix.kind = "malformed")
  /\ returned' = TRUE
  /\ UNCHANGED <<context, matrix>>
  /\ UNCHANGED <<pc, params, attempt, client, tx, comments, botComment, error,
                 pr_comments, issueComments, seen, begins, sleeps, extLog,
                 failedAt, commitOrder, lastWrite, faults, ends>>

\* generateSource has not been called.
SourceIdle ==
  /\ context = [workflow |-> <<99, 105>>, job |-> <<116>>]
  /\ matrix = NoMatrix
  /\ source = <<>>
  /\ warned = FALSE
  /\ returned = FALSE

\* ------------------------------------------------------------------- Init

\* No invocation has started; the log is empty; every thread holds one
\* comment, a person's, that quotes the header of an automated comment.

\* No invocation has started.
NoInvocation ==
  /\ pc = [p \in Procs |-> "idle"]
  /\ params = [p \in Procs |-> NoParams]
  /\ attempt = [p \in Procs |-> 0]
  /\ client = [p \in Procs |-> "new"]
  /\ tx = [p \in Procs |-> {}]
  /\ comments = [p \in Procs |-> <<>>]
  /\ botComment = [p \in Procs |-> 0]
  /\ error = [p \in Procs |-> NoError]
  /\ pr_comments = {}
  /\ issueComments = [n \in PRs |-> <<HumanQuote>>]
  /\ seen = [p \in Procs |-> {}]
  /\ begins = [p \in Procs |-> 0]
  /\ sleeps = [p \in Procs |-> <<>>]
  /\ extLog = [p \in Procs |-> <<>>]
  /\ failedAt = [p \in Procs |-> 0]
  /\ ends = [p \in Procs |-> 0]
  /\ commitOrder = <<>>
  /\ lastWrite = NoWrite

Init ==
  /\ NoInvocation
  /\ faults = MaxFaults
  /\ SourceIdle

\* ---------------------------------------------------------------- actions

\* run() calls processWithRetry: the inputs are read and the Client is
\* constructed (lines 40-49); the loop starts with attempt = 1 (line 51).
Start(p) ==
  /\ pc[p] = "idle"
  /\ \E k \in Keys(p), r \in RunIds, a \in RunAttempts :
       params' = [params EXCEPT ![p] =
                    [prNumber |-> k[1], commitSha |-> k[2], source |-> k[3],
                     runId |-> r, runAttempt |-> a]]
  /\ attempt' = [attempt EXCEPT ![p] = 1]
  /\ pc' = [pc EXCEPT ![p] = "connect"]
  /\ UNCHANGED srcVars
  /\ UNCHANGED <<client, tx, comments, botComment, error, pr_comments,
                 issueComments, seen, begins, sleeps, extLog, failedAt,
                 commitOrder, lastWrite, faults, ends>>

\* await client.connect(), line 53, on the Client constructed once at line
\* 41.  From the second attempt on the Client has been ended (line 150): the
\* driver then either rejects the call (pg: "Client has already been
\* connected. You cannot reuse a client.") or opens a new connection; the
\* source does not decide which.  A rejection at line 53 is outside the inner
\* try: no ROLLBACK, no end().
Connect(p) ==
  /\ pc[p] = "connect"
  /\ \/ /\ client' = [client EXCEPT ![p] = "open"]
        /\ pc' = [pc EXCEPT ![p] = "begin"]
        /\ UNCHANGED <<tx, error, sleeps, failedAt, faults, ends>>
     \/ Fault(p, ConnectError, FALSE)
     \/ /\ client[p] = "ended"
        /\ Raise(p, ReuseError, FALSE)
        /\ UNCHANGED faults
  /\ UNCHANGED srcVars
  /\ UNCHANGED <<params, attempt, comments, botComment, pr_comments,
                 issueComments, seen, begins, extLog, commitOrder, lastWrite>>

\* await client.query('BEGIN'), line 56.
Begin(p) ==
  /\ pc[p] = "begin"
  /\ begins' = [begins EXCEPT ![p] = @ + 1]
  /\ \/ /\ pc' = [pc EXCEPT ![p] = "insert"]
        /\ UNCHANGED <<client, tx, error, sleeps, failedAt, faults, ends>>
     \/ \E e \in StoreFaults : Fault(p, e, TRUE)
  /\ UNCHANGED srcVars
  /\ UNCHANGED <<params, attempt, comments, botComment, pr_comments,
                 issueComments, seen, extLog, commitOrder, lastWrite>>

\* The INSERT of lines 58-62; created_at is the store's CURRENT_TIMESTAMP.
NewRow(p, t) ==
  [id |-> <<p, attempt[p]>>, pr_number |-> params[p].prNumber,
   commit_sha |-> params[p].commitSha, message |-> Message(p), created_at |-> t,
   source |-> params[p].source, run_id |-> params[p].runId,
   run_attempt |-> params[p].runAttempt]

Insert(p) ==
  /\ pc[p] = "insert"
  /\ \/ /\ \E t \in Times : tx' = [tx EXCEPT ![p] = {NewRow(p, t)}]
        /\ pc' = [pc EXCEPT ![p] = "select"]
        /\ UNCHANGED <<client, error, sleeps, failedAt, faults, ends>>
     \/ \E e \in StoreFaults : Fault(p, e, TRUE)
  /\ UNCHANGED srcVars
  /\ UNCHANGED <<params, attempt, comments, botComment, pr_comments,
                 issueComments, seen, begins, extLog, commitOrder, lastWrite>>

\* The resolve query of lines 64-81.
Select(p) ==
  /\ pc[p] = "select"
  /\ \/ /\ \E v \in ResolvedViews(Visible(p)) : comments' = [comments EXCEPT ![p] = v]
        /\ seen' = [seen EXCEPT ![p] = Visible(p)]
        /\ pc' = [pc EXCEPT ![p] = "list"]
        /\ UNCHANGED <<client, tx, error, sleeps, failedAt, faults, ends>>
     \/ /\ \E e \in StoreFaults : Fault(p, e, TRUE)
        /\ UNCHANGED <<comments, seen>>
  /\ UNCHANGED srcVars
  /\ UNCHANGED <<params, attempt, botComment, pr_comments, issueComments,
                 begins, extLog, commitOrder, lastWrite>>

\* await github.rest.issues.listComments(...) and find, lines 106-116.
ListComments(p) ==
  /\ pc[p] = "list"
  /\ \/ /\ botComment' =
             [botComment EXCEPT ![p] = FindBotComment(issueComments[params[p].prNumber])]
        /\ pc' = [pc EXCEPT ![p] = "write"]
        /\ UNCHANGED <<client, tx, error, sleeps, failedAt, faults, ends>>
     \/ /\ \E e \in GitHubFaults : Fault(p, e, TRUE)
        /\ UNCHANGED botComment
  /\ UNCHANGED srcVars
  /\ UNCHANGED <<params, attempt, comments, pr_comments, issueComments, seen,
                 begins, extLog, commitOrder, lastWrite>>

\* updateComment or createComment, lines 118-140.
WriteComment(p) ==
  LET n == params[p].prNumber
      thread == issueComments[n]
      body == Render(params[p].commitSha, comments[p])
      id == IF botComment[p] # 0 THEN botComment[p] ELSE Len(thread) + 1
  IN
  /\ pc[p] = "write"
  /\ \/ /\ issueComments' =
             [issueComments EXCEPT ![n] =
                IF botComment[p] # 0
                  THEN [thread EXCEPT ![id] = [bot |-> thread[id].bot, body |-> body]]
                  ELSE Append(thread, [bot |-> TRUE, body |-> body])]
        /\ extLog' =
             [extLog EXCEPT ![p] =
                Append(@, IF botComment[p] # 0
                            THEN [op |-> "update", id |-> id,
                                  was |-> thread[id].body.commitSha,
                                  wasBot |-> thread[id].bot]
                            ELSE [op |-> "create", id |-> id, was |-> "",
                                  wasBot |-> TRUE])]
        /\ lastWrite' = [pr |-> n, id |-> id, body |-> body]
        /\ pc' = [pc EXCEPT ![p] = "commit"]
        /\ UNCHANGED <<client, tx, error, sleeps, failedAt, faults, ends>>
     \/ /\ \E e \in GitHubFaults : Fault(p, e, TRUE)
        /\ UNCHANGED <<issueComments, extLog, lastWrite>>
  /\ UNCHANGED srcVars
  /\ UNCHANGED <<params, attempt, comments, botComment, pr_comments, seen,
                 begins, commitOrder>>

\* await client.query('COMMIT'), await client.end() and return, lines
\* 142-144, followed by the finally block's client.end(), line 150.
Commit(p) ==
  /\ pc[p] = "commit"
  /\ \/ /\ pr_comments' = pr_comments \cup tx[p]
        /\ tx' = [tx EXCEPT ![p] = {}]
        /\ client' = [client EXCEPT ![p] = "ended"]
        /\ commitOrder' = Append(commitOrder, p)
        /\ pc' = [pc EXCEPT ![p] = "done"]
        /\ ends' = [ends EXCEPT ![p] = @ + 2]
        /\ UNCHANGED <<error, sleeps, failedAt, faults>>
     \/ /\ \E e \in StoreFaults : Fault(p, e, TRUE)
        /\ UNCHANGED <<pr_comments, commitOrder>>
  /\ UNCHANGED srcVars
  /\ UNCHANGED <<params, attempt, comments, botComment, issueComments, seen,
                 begins, extLog, lastWrite>>

\* await sleep(RETRY_DELAY * attempt); continue, lines 170-171: the loop
\* increments attempt and runs its body again.
Sleep(p) ==
  /\ pc[p] = "sleep"
  /\ attempt' = [attempt EXCEPT ![p] = @ + 1]
  /\ pc' = [pc EXCEPT ![p] = "connect"]
  /\ error' = [error EXCEPT ![p] = NoError]
  /\ failedAt' = [failedAt EXCEPT ![p] = 0]
  /\ UNCHANGED srcVars
  /\ UNCHANGED <<params, client, tx, comments, botComment, pr_comments,
                 issueComments, seen, begins, sleeps, extLog, commitOrder,
                 lastWrite, faults, ends>>

processWithRetry(p) ==
  \/ Start(p)
  \/ Connect(p)
  \/ Begin(p)
  \/ Insert(p)
  \/ Select(p)
  \/ ListComments(p)
  \/ WriteComment(p)
  \/ Commit(p)
  \/ Sleep(p)

\* Concurrent use: the invocations start and take their steps in any order.
Next == \E p \in Procs : processWithRetry(p)

Spec == Init /\ [][Next]_vars

\* Sequential use: an invocation starts only when no other one is running,
\* A's before B's.
StartAlone(p) ==
  /\ \A q \in Procs : ~ Running(q)
  /\ p = "A" \/ pc["A"] # "idle"
  /\ Start(p)

NextSeq ==
  \E p \in Procs :
    \/ StartAlone(p)
    \/ Connect(p)
    \/ Begin(p)
    \/ Insert(p)
    \/ Select(p)
    \/ ListComments(p)
    \/ WriteComment(p)
    \/ Commit(p)
    \/ Sleep(p)

SpecSeq == Init /\ [][NextSeq]_vars

\* One invocation on its own, in an environment that may reject one call in
\* each of its MAX_RETRIES attempts.
InitRetry ==
  /\ NoInvocation
  /\ faults = MAX_RETRIES
  /\ SourceIdle

NextRetry == processWithRetry("A")

SpecRetry == InitRetry /\ [][NextRetry]_vars

\* generateSource on its own, called once on each context and matrix input.
InitSource ==
  /\ NoInvocation
  /\ faults = 0
  /\ context \in Contexts
  /\ \E n \in 0..MaxEntries : matrix \in MatrixInputs(n)
  /\ source = <<>>
  /\ warned = FALSE
  /\ returned = FALSE

NextSource == CallGenerateSource

SpecSource == InitSource /\ [][NextSource]_vars

\* Contention: the two invocations run concurrently for one pull request and
\* commit, in one run of the workflow, in an environment that may reject
\* MAX_RETRIES calls and in which the store's clock stands still.  Every call
\* an invocation awaits is answered, and the event loop then runs the
\* invocation's next step.
InitContend ==
  /\ NoInvocation
  /\ faults = MAX_RETRIES
  /\ SourceIdle

StartContending(p) ==
  /\ Start(p)
  /\ params'[p].prNumber = 1
  /\ params'[p].commitSha = "R1"
  /\ params'[p].runId = 1
  /\ params'[p].runAttempt = 1

InsertContending(p) ==
  /\ Insert(p)
  /\ \A r \in tx'[p] : r.created_at = 1

Contend(p) ==
  \/ StartContending(p)
  \/ Connect(p)
  \/ Begin(p)
  \/ InsertContending(p)
  \/ Select(p)
  \/ ListComments(p)
  \/ WriteComment(p)
  \/ Commit(p)
  \/ Sleep(p)

NextContend == \E p \in Procs : Contend(p)

SpecContend ==
  /\ InitContend
  /\ [][NextContend]_vars
  /\ \A p \in Procs : WF_vars(Contend(p))

TypeOK ==
  /\ \A p \in Procs : attempt[p] \in 0..MAX_RETRIES
  /\ \A p \in Procs : Cardinality(tx[p]) <= 1

\* ------------------------------------------------------------- properties

Range(q) == {q[i] : i \in 1..Len(q)}

SameKey(a, b) ==
  /\ params[a].prNumber = params[b].prNumber
  /\ params[a].commitSha = params[b].commitSha

\* (run_id, run_attempt) of a is lexicographically at most that of b.
RunLeq(a, b) ==
  \/ a.run_id < b.run_id
  \/ a.run_id = b.run_id /\ a.run_attempt <= b.run_attempt

Started == {p \in Procs : pc[p] # "idle"}
Succeeded == {p \in Procs : pc[p] = "done"}

\* C1 (as claimed): when two invocations with different source keys have both
\* committed for the same pull request and commit, the rows read by the one
\* that committed last hold a record of each of the two source keys.
C1_NoLostUpdate ==
  \A a, b \in Procs :
    (/\ pc[a] = "done"
     /\ pc[b] = "done"
     /\ SameKey(a, b)
     /\ params[a].source # params[b].source)
    => {params[a].source, params[b].source}
         \subseteq {r.source : r \in Range(comments[commitOrder[Len(commitOrder)]])}

\* C2: the rows a resolve query returns are rows it read, exactly one for
\* each source key among the rows it read, and each has the greatest
\* (run_id, run_attempt) of its source key, whatever the created_at values.
C2_LatestPerSource ==
  \A p \in Procs :
    /\ Range(comments[p]) \subseteq seen[p]
    /\ Len(comments[p]) = Cardinality({r.source : r \in seen[p]})
    /\ \A r \in seen[p] :
         Cardinality({i \in 1..Len(comments[p]) : comments[p][i].source = r.source}) = 1
    /\ \A i \in 1..Len(comments[p]) : \A r \in seen[p] :
         r.source = comments[p][i].source => RunLeq(r, comments[p][i])

\* C2's case: a query read two rows of one source key, the one of the
\* earlier run attempt carrying the later created_at, and kept the other.
C2_Witness ==
  \E p \in Procs : \E old, new \in seen[p] :
    /\ old.source = new.source
    /\ old.run_id = new.run_id
    /\ old.run_attempt < new.run_attempt
    /\ old.created_at > new.created_at
    /\ comments[p] = <<new>>

\* C3 (as claimed): once all invocations, started for one pull request and
\* commit, have succeeded, the body written last holds exactly one section
\* per source key among them, the one of the committed row with the greatest
\* (run_id, run_attempt).
C3_NoContributionLost ==
  ((\A p \in Procs : pc[p] = "done") /\ (\A a, b \in Procs : SameKey(a, b)))
  => LET sections == lastWrite.body.sections
         sources == {params[p].source : p \in Procs}
     IN /\ Len(sections) = Cardinality(sources)
        /\ \A s \in sources :
             \E i \in 1..Len(sections) : \E r \in pr_comments :
               /\ r.source = s
               /\ sections[i] = Section(r)
               /\ \A r2 \in pr_comments : r2.source = s => RunLeq(r2, r)

\* Every rejection the environment made of a call of p was a store error
\* with a retryable code: the error caught last is one, or is the driver's
\* own refusal to reconnect an ended Client.
OnlyTransientConflicts(p) ==
  error[p] \in {StoreError(c) : c \in RETRY_ERROR_CODES} \cup {ReuseError}

\* C4 (as claimed): an invocation that fails after meeting nothing but
\* transient conflicts has made exactly MAX_RETRIES attempts, each of which
\* issued BEGIN.
C4_RetryBound ==
  \A p \in Procs :
    (pc[p] = "failed" /\ OnlyTransientConflicts(p))
    => attempt[p] = MAX_RETRIES /\ begins[p] = MAX_RETRIES

\* C5: when the error caught in attempt n is a store or driver error whose
\* code is not retryable, the invocation has failed in attempt n, having
\* slept only after the n - 1 earlier attempts and begun at most n
\* transactions; with n = 1 it made one attempt and never slept.
C5_FatalNotRetried ==
  \A p \in Procs :
    (error[p].kind \in {"store", "connect", "driver"}
       /\ error[p].code \notin RETRY_ERROR_CODES)
    => /\ pc[p] = "failed"
       /\ attempt[p] = failedAt[p]
       /\ Len(sleeps[p]) = failedAt[p] - 1
       /\ begins[p] <= failedAt[p]

\* C5's case: the store rejected a statement of the first attempt with an
\* error that has no code.
C5_Witness ==
  \E p \in Procs :
    /\ error[p] = StoreError("")
    /\ failedAt[p] = 1
    /\ begins[p] = 1

\* C6 (as claimed): an invocation that succeeds in its second attempt has
\* committed exactly one row and made exactly one createComment or
\* updateComment call.
C6_FailedAttemptNoEffect ==
  \A p \in Procs :
    (pc[p] = "done" /\ attempt[p] = 2)
    => /\ Cardinality({r \in pr_comments : r.id[1] = p}) = 1
       /\ Len(extLog[p]) = 1

\* The automated comments of commit c in the thread of pull request n.
BotCommentsFor(n, c) ==
  {i \in 1..Len(issueComments[n]) :
     IsBotComment(issueComments[n][i]) /\ issueComments[n][i].body.commitSha = c}

\* C7: in sequential use, when every invocation started so far is for one
\* pull request and commit, none has failed and one has succeeded, the
\* thread holds exactly one automated comment for that commit; the
\* invocation that succeeded first created it with its first write, and
\* every other write is an update of that comment.
C7_SequentialIdempotent ==
  ((\A a, b \in Started : SameKey(a, b))
     /\ (\A p \in Procs : pc[p] # "failed")
     /\ Succeeded # {})
  => LET first == commitOrder[1]
         bots == BotCommentsFor(params[first].prNumber, params[first].commitSha)
     IN /\ Cardinality(bots) = 1
        /\ extLog[first][1].op = "create"
        /\ extLog[first][1].id \in bots
        /\ \A p \in Started : \A i \in 1..Len(extLog[p]) :
             (p # first \/ i > 1)
             => extLog[p][i].op = "update" /\ extLog[p][i].id \in bots

\* C7's case: two invocations for one commit have succeeded one after the
\* other and the second one has updated the comment.
C7_Witness ==
  /\ Succeeded = Procs
  /\ \A a, b \in Procs : SameKey(a, b)
  /\ \E p \in Procs : extLog[p] # <<>> /\ extLog[p][1].op = "update"

\* C8 (as claimed): an invocation updates a comment only if a Bot wrote it
\* and its body names the invocation's own commit.
C8_OwnRevisionOnly ==
  \A p \in Procs : \A i \in 1..Len(extLog[p]) :
    extLog[p][i].op = "update"
    => extLog[p][i].wasBot /\ extLog[p][i].was = params[p].commitSha

\* The ways to put n things in an order.
Orders(n) == {f \in [1..n -> 1..n] : \A i, j \in 1..n : i # j => f[i] # f[j]}

\* The matrix input m with its entries put in the order f.
Reordered(m, f) ==
  [kind |-> m.kind, entries |-> [i \in 1..Len(m.entries) |-> m.entries[f[i]]]]

\* The key returned for a matrix object of at least one entry whose
\* entries, put in the order f, read es.
SuffixedWith(es) ==
  source = context.workflow \o Slash \o context.job \o LeftParen
             \o Join([i \in 1..Len(es) |-> Entry(es[i])]) \o RightParen

\* C9 (as claimed): the key returned for a matrix object is the key of each
\* reordering of its entries, and its suffix lists the entries in ascending
\* order of their keys.
C9_SortedByKey ==
  (returned /\ matrix.kind = "object" /\ matrix.entries # <<>>)
  => /\ \A f \in Orders(Len(matrix.entries)) :
          generateSource(context, Reordered(matrix, f)) = source
     /\ \E f \in Orders(Len(matrix.entries)) :
          LET es == Reordered(matrix, f).entries
          IN /\ \A i \in 1..(Len(es) - 1) : StrLess(es[i].key, es[i + 1].key)
             /\ SuffixedWith(es)

\* C9 (amended): the key returned for a matrix object is the key of each
\* reordering of its entries, and its suffix lists the entries in ascending
\* code-unit order of their whole key=value strings.
C9_SortedByEntry ==
  (returned /\ matrix.kind = "object" /\ matrix.entries # <<>>)
  => /\ \A f \in Orders(Len(matrix.entries)) :
          generateSource(context, Reordered(matrix, f)) = source
     /\ \E f \in Orders(Len(matrix.entries)) :
          LET es == Reordered(matrix, f).entries
          IN /\ \A i \in 1..(Len(es) - 1) : StrLess(Entry(es[i]), Entry(es[i + 1]))
             /\ SuffixedWith(es)

\* C9's case: the key was returned for {b: 2, a: 1}.
C9_Witness ==
  /\ returned
  /\ matrix.kind = "object"
  /\ matrix.entries = <<[key |-> <<98>>, value |-> 2], [key |-> <<97>>, value |-> 1]>>
  /\ source = <<99, 105, 47, 116, 40, 97, 61, 49, 44, 98, 61, 50, 41>>

\* C10: when the error caught in attempt n came from the comment API, the
\* invocation has failed in attempt n: it slept only after the n - 1
\* earlier attempts, began n transactions and left none open, and made no
\* createComment or updateComment call in or after attempt n.
C10_CollaboratorFatal ==
  \A p \in Procs :
    error[p].kind = "github"
    => /\ pc[p] = "failed"
       /\ attempt[p] = failedAt[p]
       /\ Len(sleeps[p]) = failedAt[p] - 1
       /\ begins[p] = failedAt[p]
       /\ tx[p] = {}
       /\ Len(extLog[p]) <= failedAt[p] - 1

\* C10's case: updateComment was rejected in the second attempt, after the
\* first attempt had created the comment.
C10_Witness ==
  \E p \in Procs :
    /\ error[p] = GitHubError
    /\ failedAt[p] = 2
    /\ botComment[p] # 0
    /\ Len(extLog[p]) = 1

\* The error processWithRetry throws to run(): `throw error` of lines 160
\* and 190 rethrows the error caught last.  Line 195 would throw
\* ExhaustedError, but no path of the loop reaches it: the last attempt
\* either returns (line 144) or throws (lines 160, 190).
ExhaustedError == [kind |-> "exhausted", code |-> "", status |-> 0]

Thrown(p) == IF pc[p] = "failed" THEN error[p] ELSE NoError

\* C11 (as claimed): the transaction is committed before the first external
\* sync call, so an invocation that failed with an error of the comment API
\* has its row committed.
C11_CommitBeforeSync ==
  \A p \in Procs :
    (pc[p] = "failed" /\ error[p].kind = "github")
    => \E r \in pr_comments : r.id[1] = p

\* C12 (as claimed): when the last attempt fails with a transient conflict,
\* the error thrown to the caller is the exhausted-retries error.
C12_ExhaustedReported ==
  \A p \in Procs :
    (/\ pc[p] = "failed"
     /\ failedAt[p] = MAX_RETRIES
     /\ error[p].kind = "store"
     /\ error[p].code \in RETRY_ERROR_CODES)
    => Thrown(p) = ExhaustedError

\* C19 (as claimed): once an invocation on its own has terminated, every
\* section of the body written last to the comment is the section of a
\* committed row.
C19_OnlyCommittedShown ==
  \A p \in Procs :
    (pc[p] \in {"done", "failed"} /\ extLog[p] # <<>>)
    => \A i \in 1..Len(lastWrite.body.sections) :
         \E r \in pr_comments : Section(r) = lastWrite.body.sections[i]

RECURSIVE SumSeq(_)
SumSeq(q) == IF q = <<>> THEN 0 ELSE Head(q) + SumSeq(Tail(q))

IsTransient(e) == e.kind = "store" /\ e.code \in RETRY_ERROR_CODES

\* C14: the delays an invocation has slept are 1000 ms after attempt 1 and
\* 2000 ms after attempt 2, one after every attempt before the current one
\* and none after the last: a transient conflict in attempt n < MAX_RETRIES
\* is followed by a sleep of 1000 * n ms, and an invocation that failed with
\* a transient conflict in attempt MAX_RETRIES has slept 3000 ms in total.
C14_LinearBackoff ==
  \A p \in Procs :
    /\ sleeps[p] \in {<<>>, <<1000>>, <<1000, 2000>>}
    /\ attempt[p] > 0
         => Len(sleeps[p]) = IF pc[p] = "sleep" THEN attempt[p] ELSE attempt[p] - 1
    /\ (IsTransient(error[p]) /\ failedAt[p] < MAX_RETRIES)
         => /\ pc[p] = "sleep"
            /\ sleeps[p][failedAt[p]] = 1000 * failedAt[p]
    /\ (IsTransient(error[p]) /\ failedAt[p] = MAX_RETRIES)
         => /\ pc[p] = "failed"
            /\ SumSeq(sleeps[p]) = 3000

\* C14's case: an invocation has exhausted its retries on transient
\* conflicts, having slept after attempts 1 and 2.
C14_Witness ==
  \E p \in Procs :
    /\ pc[p] = "failed"
    /\ IsTransient(error[p])
    /\ attempt[p] = MAX_RETRIES
    /\ sleeps[p] = <<1000, 2000>>

\* C13 (as claimed): while an attempt runs its transaction the connection is
\* open and has been released once per earlier attempt, and when an attempt
\* has ended, on whichever path, the connection has been released once per
\* attempt made.
C13_ReleasedOncePerAttempt ==
  \A p \in Procs :
    /\ pc[p] \in {"begin", "insert", "select", "list", "write", "commit"}
         => client[p] = "open" /\ ends[p] = attempt[p] - 1
    /\ pc[p] \in {"sleep", "done", "failed"} => ends[p] = attempt[p]

\* C17: the rows a resolve query of an invocation read and returned all
\* carry the invocation's pull request and commit, and the rows returned are
\* a resolved view of the committed and own rows of that pair alone: rows of
\* another commit or another pull request change nothing.
C17_ViewOfOwnKeyOnly ==
  \A p \in Procs :
    /\ \A r \in seen[p] \cup Range(comments[p]) :
         r.pr_number = params[p].prNumber /\ r.commit_sha = params[p].commitSha
    /\ pc[p] = "list"
         => /\ seen[p] = {r \in pr_comments \cup tx[p] :
                            <<r.pr_number, r.commit_sha>>
                              = <<params[p].prNumber, params[p].commitSha>>}
            /\ comments[p] \in ResolvedViews(seen[p])

\* C17's case: a query has run for a pull request while the table held a
\* committed row of the same commit and source on another pull request.
C17_Witness ==
  \E p \in Procs : \E r \in pr_comments :
    /\ pc[p] = "list"
    /\ r.pr_number # params[p].prNumber
    /\ r.commit_sha = params[p].commitSha
    /\ r.source = params[p].source
    /\ Len(comments[p]) = 1
    /\ comments[p][1].id[1] = p

\* C18: the document an invocation has just written is the rendering of the
\* rows its resolve query returned, and rendering them again gives the same
\* document: the header names the invocation's commit and there is one
\* section per row, in the order of the rows, which is ascending in
\* created_at, each carrying its row's source, run_id, run_attempt and
\* message.
C18_RenderedFromView ==
  \A p \in Procs :
    pc[p] = "commit"
    => LET doc == lastWrite.body
           view == comments[p]
       IN /\ doc = Render(params[p].commitSha, view)
          /\ issueComments[lastWrite.pr][lastWrite.id].body = doc
          /\ doc.marker
          /\ doc.commitSha = params[p].commitSha
          /\ Len(doc.sections) = Len(view)
          /\ \A i \in 1..Len(view) :
               /\ doc.sections[i].source = view[i].source
               /\ doc.sections[i].run_id = view[i].run_id
               /\ doc.sections[i].run_attempt = view[i].run_attempt
               /\ doc.sections[i].message = view[i].message
          /\ \A i, j \in 1..Len(view) :
               i < j => view[i].created_at <= view[j].created_at

\* C18's case: a document of two sections has been written, for two rows
\* of different sources and different created_at.
C18_Witness ==
  \E p \in Procs :
    /\ pc[p] = "commit"
    /\ Len(lastWrite.body.sections) = 2
    /\ lastWrite.body.sections[1].source # lastWrite.body.sections[2].source
    /\ comments[p][1].created_at < comments[p][2].created_at

\* C20 (as claimed): the rows a resolve query read admit one result only:
\* every resolve query over them returns the sequence this one returned.
C20_ViewDetermined ==
  \A p \in Procs :
    pc[p] = "list" => ResolvedViews(seen[p]) = {comments[p]}

Terminated(p) == pc[p] \in {"done", "failed"}

Creates(p) == {i \in 1..Len(extLog[p]) : extLog[p][i].op = "create"}

\* C16: the automated comments of the commit on the thread are the comments
\* the invocations created, at most one by each invocation: there are two
\* only when each of the two invocations has created one.
C16_DuplicateOnlyByRace ==
  /\ \A p \in Procs : Cardinality(Creates(p)) <= 1
  /\ \A p \in Procs : \A i \in Creates(p) : extLog[p][i].id \in BotCommentsFor(1, "R1")
  /\ Cardinality(BotCommentsFor(1, "R1"))
       = Cardinality({p \in Procs : Creates(p) # {}})

\* C16's case: both invocations listed the comments before either created
\* one, both have created a comment, and the thread holds two automated
\* comments for the commit while both transactions are still open.
C16_Witness ==
  /\ \A p \in Procs : pc[p] = "commit" /\ tx[p] # {} /\ botComment[p] = 0
  /\ \A p \in Procs : extLog[p] # <<>> /\ extLog[p][1].op = "create"
  /\ Cardinality(BotCommentsFor(1, "R1")) = 2

====
